---- MODULE Spec2Model ----
(***************************************************************************)
(* A model of script.py, the Santa Monica events scraper.                  *)
(*                                                                         *)
(* Python strings are sequences of one-character strings, so that split,   *)
(* strip, lower, substring search and strptime are computed on the text    *)
(* itself.  A comment above each literal gives the text it spells.         *)
(***************************************************************************)
EXTENDS Integers, Sequences, FiniteSets, TLC

VARIABLES
    pc,              \* position of the run, or of the function under check
    week_start_day,  \* parameter of scrape_and_save_events
    target_week,     \* parameter of scrape_and_save_events
    listing_hrefs,   \* the href of every link selected on the listing page
    event_links,     \* the list built from them
    events_data,     \* the batch of records
    requests_log,    \* every URL handed to requests.get, in order
    events_json,     \* content of events.json, or NotWritten
    week_json,       \* content of events_week_<..>.json, or NotWritten
    console,         \* the error reports printed so far, [kind, url]
    arg,             \* input of the function under check
    ret              \* its result

vars == <<pc, week_start_day, target_week, listing_hrefs, event_links,
          events_data, requests_log, events_json, week_json, console, arg, ret>>

\* ------------------------------------------------------------------ text

DigitChars == <<"0","1","2","3","4","5","6","7","8","9">>

UpperChars == <<"A","B","C","D","E","F","G","H","I","J","K","L","M",
                "N","O","P","Q","R","S","T","U","V","W","X","Y","Z">>

LowerChars == <<"a","b","c","d","e","f","g","h","i","j","k","l","m",
                "n","o","p","q","r","s","t","u","v","w","x","y","z">>

IsDigit(c) == \E i \in 1..10 : DigitChars[i] = c

DigitVal(c) == (CHOOSE i \in 1..10 : DigitChars[i] = c) - 1

IsSpace(c) == c \in {" ", "\t", "\n"}

LowerChar(c) ==
    IF \E i \in 1..26 : UpperChars[i] = c
    THEN LowerChars[CHOOSE i \in 1..26 : UpperChars[i] = c]
    ELSE c

\* str.lower()
Lower(s) == [i \in 1..Len(s) |-> LowerChar(s[i])]

SetMin(S) == CHOOSE x \in S : \A y \in S : x <= y

SetMax(S) == CHOOSE x \in S : \A y \in S : y <= x

\* str.strip()
Strip(s) ==
    LET keep == {i \in 1..Len(s) : ~IsSpace(s[i])}
    IN  IF keep = {} THEN <<>> ELSE SubSeq(s, SetMin(keep), SetMax(keep))

\* sub occurs in s at index i
OccursAt(s, sub, i) ==
    /\ i >= 1
    /\ i + Len(sub) - 1 <= Len(s)
    /\ \A k \in 1..Len(sub) : s[i + k - 1] = sub[k]

\* the `in` operator on strings
Contains(s, sub) == \E i \in 1..(Len(s) + 1) : OccursAt(s, sub, i)

\* str.find(), 1-based; 0 when sub does not occur
Find(s, sub) ==
    LET hits == {i \in 1..Len(s) : OccursAt(s, sub, i)}
    IN  IF hits = {} THEN 0 ELSE SetMin(hits)

RECURSIVE Split(_, _)
\* str.split(sep) for a non-empty sep
Split(s, sep) ==
    LET k == Find(s, sep)
    IN  IF k = 0
        THEN <<s>>
        ELSE <<SubSeq(s, 1, k - 1)>> \o Split(SubSeq(s, k + Len(sep), Len(s)), sep)

RECURSIVE Join(_, _)
\* sep.join(parts)
Join(parts, sep) ==
    IF parts = <<>> THEN <<>>
    ELSE IF Len(parts) = 1 THEN parts[1]
    ELSE parts[1] \o sep \o Join(Tail(parts), sep)

\* the index after the run of whitespace that starts at p
SkipSpace(s, p) ==
    LET stops == {i \in p..Len(s) : ~IsSpace(s[i])}
    IN  IF stops = {} THEN Len(s) + 1 ELSE SetMin(stops)

\* ------------------------------------------------------------- strptime

\* A failed match; a successful one is [ok |-> TRUE, next |-> p, val |-> v]
NoMatch == [ok |-> FALSE, next |-> 0, val |-> 0]

Match(p, v) == [ok |-> TRUE, next |-> p, val |-> v]

TwoDigitVal(s, p) == 10 * DigitVal(s[p]) + DigitVal(s[p + 1])

HasDigits(s, p, n) == p + n - 1 <= Len(s) /\ \A i \in p..(p + n - 1) : IsDigit(s[i])

\* %I and %m : 1[0-2]|0[1-9]|[1-9]
MatchOneToTwelve(s, p) ==
    IF HasDigits(s, p, 2) /\ TwoDigitVal(s, p) \in 1..12
    THEN Match(p + 2, TwoDigitVal(s, p))
    ELSE IF HasDigits(s, p, 1) /\ DigitVal(s[p]) \in 1..9
    THEN Match(p + 1, DigitVal(s[p]))
    ELSE NoMatch

\* %M : [0-5]\d|\d
MatchMinute(s, p) ==
    IF HasDigits(s, p, 2) /\ TwoDigitVal(s, p) \in 0..59
    THEN Match(p + 2, TwoDigitVal(s, p))
    ELSE IF HasDigits(s, p, 1)
    THEN Match(p + 1, DigitVal(s[p]))
    ELSE NoMatch

\* a literal character of the format
MatchChar(s, p, c) ==
    IF p <= Len(s) /\ s[p] = c THEN Match(p + 1, 0) ELSE NoMatch

\* a blank of the format : \s+
MatchSpaces(s, p) ==
    IF p <= Len(s) /\ IsSpace(s[p]) THEN Match(SkipSpace(s, p), 0) ELSE NoMatch

\* %p : am|pm, case-insensitive; val is 1 for pm
MatchAmPm(s, p) ==
    IF p + 1 <= Len(s) /\ Lower(SubSeq(s, p, p + 1)) = <<"a","m">>
    THEN Match(p + 2, 0)
    ELSE IF p + 1 <= Len(s) /\ Lower(SubSeq(s, p, p + 1)) = <<"p","m">>
    THEN Match(p + 2, 1)
    ELSE NoMatch

\* a plausible slip: the 12 o'clock hours are not folded
HourOfDayNoTwelve(hour, pm) == IF pm = 1 THEN hour + 12 ELSE hour

\* the 24-hour hour strptime derives from %I and %p
HourOfDay(hour, pm) ==
    IF pm = 0
    THEN (IF hour = 12 THEN 0 ELSE hour)
    ELSE (IF hour = 12 THEN 12 ELSE hour + 12)

ParseError == [ok |-> FALSE, hour |-> 0, minute |-> 0]

\* datetime.strptime(s, "%I:%M %p"); ParseError stands for the ValueError
StrptimeTime(s) ==
    LET h  == MatchOneToTwelve(s, 1)
        c  == IF h.ok THEN MatchChar(s, h.next, ":") ELSE NoMatch
        m  == IF c.ok THEN MatchMinute(s, c.next) ELSE NoMatch
        b  == IF m.ok THEN MatchSpaces(s, m.next) ELSE NoMatch
        ap == IF b.ok THEN MatchAmPm(s, b.next) ELSE NoMatch
    IN  IF ap.ok /\ ap.next = Len(s) + 1
        THEN [ok |-> TRUE, hour |-> HourOfDay(h.val, ap.val), minute |-> m.val]
        ELSE ParseError

\* "No time found"
NoTimeFound == <<"N","o"," ","t","i","m","e"," ","f","o","u","n","d">>

\* " - "
RangeSep == <<" ","-"," ">>

parse_time_to_minutes(time_str) ==
    IF time_str = <<>> \/ time_str = NoTimeFound
    THEN 0
    ELSE LET time_parts == Split(time_str, RangeSep)
         IN  IF time_parts = <<>>
             THEN 0
             ELSE LET start_time == Strip(time_parts[1])
                      time_obj   == StrptimeTime(start_time)
                  IN  IF time_obj.ok
                      THEN time_obj.hour * 60 + time_obj.minute
                      ELSE 0

\* ------------------------------------------------------------- datetime

\* A datetime is [ord |-> proleptic Gregorian ordinal, sec |-> second of day]

IsLeap(y) == y % 4 = 0 /\ (y % 100 # 0 \/ y % 400 = 0)

DaysInMonth(y, m) ==
    IF m = 2 THEN (IF IsLeap(y) THEN 29 ELSE 28)
    ELSE IF m \in {4, 6, 9, 11} THEN 30 ELSE 31

DaysBeforeYear(y) ==
    (y - 1) * 365 + ((y - 1) \div 4) - ((y - 1) \div 100) + ((y - 1) \div 400)

RECURSIVE DaysBeforeMonth(_, _)
DaysBeforeMonth(y, m) ==
    IF m = 1 THEN 0 ELSE DaysBeforeMonth(y, m - 1) + DaysInMonth(y, m - 1)

\* date.toordinal()
ToOrdinal(y, m, d) == DaysBeforeYear(y) + DaysBeforeMonth(y, m) + d

\* datetime(y, m, d): midnight
Midnight(y, m, d) == [ord |-> ToOrdinal(y, m, d), sec |-> 0]

\* datetime.max, 9999-12-31 23:59:59 (microseconds dropped)
DatetimeMax == [ord |-> ToOrdinal(9999, 12, 31), sec |-> 86399]

\* datetime.weekday(): Monday is 0
Weekday(dt) == (dt.ord + 6) % 7

\* dt + timedelta(days=n)
PlusDays(dt, n) == [ord |-> dt.ord + n, sec |-> dt.sec]

\* a <= b on datetimes
DtLE(a, b) == a.ord < b.ord \/ (a.ord = b.ord /\ a.sec <= b.sec)

MonthAbbr == << <<"j","a","n">>, <<"f","e","b">>, <<"m","a","r">>,
                <<"a","p","r">>, <<"m","a","y">>, <<"j","u","n">>,
                <<"j","u","l">>, <<"a","u","g">>, <<"s","e","p">>,
                <<"o","c","t">>, <<"n","o","v">>, <<"d","e","c">> >>

\* %b : the abbreviated month name, case-insensitive
MatchMonthAbbr(s, p) ==
    IF p + 2 <= Len(s) /\ \E i \in 1..12 : MonthAbbr[i] = Lower(SubSeq(s, p, p + 2))
    THEN Match(p + 3, CHOOSE i \in 1..12 : MonthAbbr[i] = Lower(SubSeq(s, p, p + 2)))
    ELSE NoMatch

\* %d : 3[01]|[12]\d|0[1-9]|[1-9]
MatchDay(s, p) ==
    IF HasDigits(s, p, 2) /\ TwoDigitVal(s, p) \in 1..31
    THEN Match(p + 2, TwoDigitVal(s, p))
    ELSE IF HasDigits(s, p, 1) /\ DigitVal(s[p]) \in 1..9
    THEN Match(p + 1, DigitVal(s[p]))
    ELSE NoMatch

\* %Y : \d\d\d\d
MatchYear(s, p) ==
    IF HasDigits(s, p, 4)
    THEN Match(p + 4, 100 * TwoDigitVal(s, p) + TwoDigitVal(s, p + 2))
    ELSE NoMatch

DateError == [ok |-> FALSE, dt |-> DatetimeMax]

\* the datetime constructor's range check, after the format matched
MakeDate(y, m, d) ==
    IF y >= 1 /\ d <= DaysInMonth(y, m)
    THEN [ok |-> TRUE, dt |-> Midnight(y, m, d)]
    ELSE DateError

\* datetime.strptime(s, "%b %d, %Y"); DateError stands for the ValueError
StrptimeMonthDayYear(s) ==
    LET mo == MatchMonthAbbr(s, 1)
        b1 == IF mo.ok THEN MatchSpaces(s, mo.next) ELSE NoMatch
        d  == IF b1.ok THEN MatchDay(s, b1.next) ELSE NoMatch
        c  == IF d.ok THEN MatchChar(s, d.next, ",") ELSE NoMatch
        b2 == IF c.ok THEN MatchSpaces(s, c.next) ELSE NoMatch
        y  == IF b2.ok THEN MatchYear(s, b2.next) ELSE NoMatch
    IN  IF y.ok /\ y.next = Len(s) + 1
        THEN MakeDate(y.val, mo.val, d.val)
        ELSE DateError

\* datetime.strptime(s, "%Y-%m-%d")
StrptimeIso(s) ==
    LET y  == MatchYear(s, 1)
        c1 == IF y.ok THEN MatchChar(s, y.next, "-") ELSE NoMatch
        mo == IF c1.ok THEN MatchOneToTwelve(s, c1.next) ELSE NoMatch
        c2 == IF mo.ok THEN MatchChar(s, mo.next, "-") ELSE NoMatch
        d  == IF c2.ok THEN MatchDay(s, c2.next) ELSE NoMatch
    IN  IF d.ok /\ d.next = Len(s) + 1
        THEN MakeDate(y.val, mo.val, d.val)
        ELSE DateError

\* "No date found"
NoDateFound == <<"N","o"," ","d","a","t","e"," ","f","o","u","n","d">>

\* ", "
CommaSpace == <<","," ">>

\* a plausible slip: a date string must have exactly three segments
ParseEventDateExactlyThree(date_str) ==
    LET segs == Split(date_str, CommaSpace)
    IN  IF Len(segs) # 3
        THEN DateError
        ELSE StrptimeMonthDayYear(segs[2] \o CommaSpace \o segs[3])

\* date_str.split(', ')[1] + ', ' + date_str.split(', ')[2], then strptime
\* with "%b %d, %Y"; DateError stands for the IndexError or ValueError
ParseEventDate(date_str) ==
    LET segs == Split(date_str, CommaSpace)
    IN  IF Len(segs) < 3
        THEN DateError
        ELSE StrptimeMonthDayYear(segs[2] \o CommaSpace \o segs[3])

\* event.get('date', 'No date found')
EventDate(event) == IF "date" \in DOMAIN event THEN event.date ELSE NoDateFound

\* event.get('time', '')
EventTime(event) == IF "time" \in DOMAIN event THEN event.time ELSE <<>>

\* ----------------------------------------------------------------- sort

RECURSIVE LexLess(_, _)
\* a < b on tuples of equal length, as Python compares them
LexLess(a, b) ==
    IF a = <<>> THEN FALSE
    ELSE a[1] < b[1] \/ (a[1] = b[1] /\ LexLess(Tail(a), Tail(b)))

\* x goes after every element whose key is not greater than its own
InsertByKey(sorted, x) ==
    LET n == Cardinality({i \in 1..Len(sorted) : ~LexLess(x.key, sorted[i].key)})
    IN  SubSeq(sorted, 1, n) \o <<x>> \o SubSeq(sorted, n + 1, Len(sorted))

RECURSIVE StableSort(_)
\* list.sort(key=...) and sorted(..., key=...) on [key, item] pairs: stable
StableSort(pairs) ==
    IF pairs = <<>> THEN <<>>
    ELSE InsertByKey(StableSort(SubSeq(pairs, 1, Len(pairs) - 1)), pairs[Len(pairs)])

Items(pairs) == [i \in 1..Len(pairs) |-> pairs[i].item]

\* ---------------------------------------------- organize_events_by_date

\* a plausible slip: every key gets the sentinel, so the keys stay as inserted
parse_date_for_sorting_always_max(date_str) == DatetimeMax

parse_date_for_sorting(date_str) ==
    LET r == ParseEventDate(date_str)
    IN  IF r.ok THEN r.dt ELSE DatetimeMax

RECURSIVE DictKeys(_, _)
\* the keys of events_by_date, in insertion order
DictKeys(events, seen) ==
    IF events = <<>> THEN seen
    ELSE LET date == EventDate(events[1])
         IN  DictKeys(Tail(events),
                      IF \E i \in 1..Len(seen) : seen[i] = date
                      THEN seen ELSE Append(seen, date))

\* events_by_date[date] after its sort by parse_time_to_minutes
SortedGroup(events, date) ==
    LET InGroup(e) == EventDate(e) = date
        group == SelectSeq(events, InGroup)
    IN  Items(StableSort([i \in 1..Len(group) |->
            [key |-> <<parse_time_to_minutes(EventTime(group[i]))>>, item |-> group[i]]]))

\* the returned dict as a sequence of [date, events], in iteration order
organize_events_by_date(events) ==
    LET keys == DictKeys(events, <<>>)
        sorted_dates == Items(StableSort([i \in 1..Len(keys) |->
            [key  |-> <<parse_date_for_sorting(keys[i]).ord,
                        parse_date_for_sorting(keys[i]).sec>>,
             item |-> keys[i]]]))
    IN  [i \in 1..Len(sorted_dates) |->
            [date |-> sorted_dates[i], events |-> SortedGroup(events, sorted_dates[i])]]

\* ------------------------------------------------ filter_events_by_week

DayNames == << <<"M","o","n","d","a","y">>,
               <<"T","u","e","s","d","a","y">>,
               <<"W","e","d","n","e","s","d","a","y">>,
               <<"T","h","u","r","s","d","a","y">>,
               <<"F","r","i","d","a","y">>,
               <<"S","a","t","u","r","d","a","y">>,
               <<"S","u","n","d","a","y">> >>

\* day_mapping.get(week_start_day, 0)
WeekStartNum(day) ==
    IF \E i \in 1..7 : DayNames[i] = day
    THEN (CHOOSE i \in 1..7 : DayNames[i] = day) - 1
    ELSE 0

\* a plausible slip: the difference is not wrapped into 0..6
DaysSinceWeekStartNoWrap(target_date, week_start_num) ==
    Weekday(target_date) - week_start_num

DaysSinceWeekStart(target_date, week_start_num) ==
    (Weekday(target_date) - week_start_num) % 7

WeekStartOf(target_date, week_start_num) ==
    PlusDays(target_date, 0 - DaysSinceWeekStart(target_date, week_start_num))

WeekEndOf(week_start) == PlusDays(week_start, 6)

\* a plausible slip: the except branch keeps the event
InWeekKeepsUnparsable(event, week_start, week_end) ==
    LET r == ParseEventDate(EventDate(event))
    IN  r.ok => (DtLE(week_start, r.dt) /\ DtLE(r.dt, week_end))

\* the loop body's decision to append the event
InWeek(event, week_start, week_end) ==
    LET date_str == EventDate(event)
    IN  IF date_str = NoDateFound
        THEN FALSE
        ELSE LET r == ParseEventDate(date_str)
             IN  r.ok /\ DtLE(week_start, r.dt) /\ DtLE(r.dt, week_end)

\* a plausible slip: the time is left out of the key
sort_key_date_only(event) ==
    LET r == ParseEventDate(EventDate(event))
    IN  IF r.ok THEN <<r.dt.ord, r.dt.sec, 0>>
        ELSE <<DatetimeMax.ord, DatetimeMax.sec, 0>>

\* the (datetime, minutes) tuple, written <<ord, sec, minutes>>
sort_key(event) ==
    LET date_str == EventDate(event)
    IN  IF date_str = NoDateFound
        THEN <<DatetimeMax.ord, DatetimeMax.sec, 0>>
        ELSE LET r == ParseEventDate(date_str)
             IN  IF r.ok
                 THEN <<r.dt.ord, r.dt.sec, parse_time_to_minutes(EventTime(event))>>
                 ELSE <<DatetimeMax.ord, DatetimeMax.sec, 0>>

filter_events_by_week(events, target_week_start, day) ==
    LET week_start_num == WeekStartNum(day)
        target == StrptimeIso(target_week_start)
    IN  IF ~target.ok
        THEN <<>>
        ELSE LET week_start == WeekStartOf(target.dt, week_start_num)
                 week_end   == WeekEndOf(week_start)
                 Keep(e) == InWeek(e, week_start, week_end)
                 filtered_events == SelectSeq(events, Keep)
             IN  Items(StableSort([i \in 1..Len(filtered_events) |->
                     [key |-> sort_key(filtered_events[i]), item |-> filtered_events[i]]]))

\* -------------------------------------------------- extract_description

\* A parsed page (soup) is
\*   [containers |-> the div.container elements, in document order,
\*    main_div   |-> the children of the first main > div (<<>> when absent)]
\* a container is [ps |-> its p elements, lis |-> the texts of its ul > li]
\* a p element is a sequence of nodes [tag |-> "text" | "i" | "a", s |-> text]
\* a child of main > div is [string |-> its .string, <<>> for None]

RECURSIVE Concat(_)
\* "".join(strings)
Concat(strings) ==
    IF strings = <<>> THEN <<>> ELSE strings[1] \o Concat(Tail(strings))

\* p.get_text(strip=True): the stripped strings of the element, joined
ParagraphText(p) == Concat([i \in 1..Len(p) |-> Strip(p[i].s)])

\* the texts of the p > tag elements of a container, in document order
RECURSIVE InlineTexts(_, _)
InlineTexts(ps, tag) ==
    IF ps = <<>> THEN <<>>
    ELSE LET IsTag(n) == n.tag = tag
             hits == SelectSeq(ps[1], IsTag)
         IN  [i \in 1..Len(hits) |-> Strip(hits[i].s)] \o InlineTexts(Tail(ps), tag)

\* container.get_text(strip=True)
ContainerText(c) ==
    Concat([i \in 1..Len(c.ps) |-> ParagraphText(c.ps[i])])
    \o Concat([i \in 1..Len(c.lis) |-> Strip(c.lis[i])])

\* a plausible slip: a candidate is compared with the last find only
InPartsLastOnly(parts, text) == parts # <<>> /\ parts[Len(parts)] = text

\* `text in description_parts`
InParts(parts, text) == \E i \in 1..Len(parts) : parts[i] = text

RECURSIVE Collect(_, _, _)
\* one `for` loop over the texts of a selector: a text is appended if it is
\* not empty, not in description_parts yet, and longer than min_len
Collect(parts, texts, min_len) ==
    IF texts = <<>> THEN parts
    ELSE Collect(
             IF /\ texts[1] # <<>>
                /\ ~InParts(parts, texts[1])
                /\ Len(texts[1]) > min_len
             THEN Append(parts, texts[1]) ELSE parts,
             Tail(texts), min_len)

\* the body of `for container in containers`
CollectContainer(parts, c) ==
    IF ContainerText(c) = <<>>
    THEN parts
    ELSE LET p1 == Collect(parts, [i \in 1..Len(c.ps) |-> ParagraphText(c.ps[i])], 10)
             p2 == Collect(p1, InlineTexts(c.ps, "i"), 5)
             p3 == Collect(p2, [i \in 1..Len(c.lis) |-> Strip(c.lis[i])], 5)
             p4 == Collect(p3, InlineTexts(c.ps, "a"), 5)
         IN  p4

RECURSIVE CollectContainers(_, _)
CollectContainers(parts, containers) ==
    IF containers = <<>> THEN parts
    ELSE CollectContainers(CollectContainer(parts, containers[1]), Tail(containers))

\* Case 5: the children of main > div whose .string is not blank
CollectMainDiv(parts, children) ==
    Collect(parts, [i \in 1..Len(children) |-> Strip(children[i].string)], 10)

\* the phrases that mark navigation text
SkipPhrases == <<
    \* "open"
    <<"o","p","e","n">>,
    \* "close"
    <<"c","l","o","s","e">>,
    \* "menu"
    <<"m","e","n","u">>,
    \* "navigation"
    <<"n","a","v","i","g","a","t","i","o","n">>,
    \* "contact us"
    <<"c","o","n","t","a","c","t"," ","u","s">>,
    \* "get involved"
    <<"g","e","t"," ","i","n","v","o","l","v","e","d">>,
    \* "submit a request"
    <<"s","u","b","m","i","t"," ","a"," ","r","e","q","u","e","s","t">>,
    \* "careers"
    <<"c","a","r","e","e","r","s">>,
    \* "about us"
    <<"a","b","o","u","t"," ","u","s">>,
    \* "site feedback"
    <<"s","i","t","e"," ","f","e","e","d","b","a","c","k">>,
    \* "events"
    <<"e","v","e","n","t","s">>,
    \* "disclaimer"
    <<"d","i","s","c","l","a","i","m","e","r">>,
    \* "privacy policy"
    <<"p","r","i","v","a","c","y"," ","p","o","l","i","c","y">>,
    \* "accessibility policy"
    <<"a","c","c","e","s","s","i","b","i","l","i","t","y"," ","p","o","l","i","c","y">>,
    \* "your city hall"
    <<"y","o","u","r"," ","c","i","t","y"," ","h","a","l","l">>,
    \* "strategic priorities"
    <<"s","t","r","a","t","e","g","i","c"," ","p","r","i","o","r","i","t","i","e","s">>,
    \* "city management"
    <<"c","i","t","y"," ","m","a","n","a","g","e","m","e","n","t">>,
    \* "departments"
    <<"d","e","p","a","r","t","m","e","n","t","s">>,
    \* "council and commissions"
    <<"c","o","u","n","c","i","l"," ","a","n","d"," ","c","o","m","m","i","s","s","i","o","n","s">>,
    \* "transparency"
    <<"t","r","a","n","s","p","a","r","e","n","c","y">>,
    \* "get involved"
    <<"g","e","t"," ","i","n","v","o","l","v","e","d">>,
    \* "participating in government"
    <<"p","a","r","t","i","c","i","p","a","t","i","n","g"," ","i","n"," ","g","o","v","e","r","n","m","e","n","t">>,
    \* "working at the city"
    <<"w","o","r","k","i","n","g"," ","a","t"," ","t","h","e"," ","c","i","t","y">> >>

\* the words that mark a list of links
ListWords == <<
    \* "services"
    <<"s","e","r","v","i","c","e","s">>,
    \* "programs"
    <<"p","r","o","g","r","a","m","s">>,
    \* "departments"
    <<"d","e","p","a","r","t","m","e","n","t","s">> >>

ContainsAny(text, phrases) == \E i \in 1..Len(phrases) : Contains(text, phrases[i])

\* len(part.split())
WordCount(s) ==
    Cardinality({i \in 1..Len(s) : ~IsSpace(s[i]) /\ (i = 1 \/ IsSpace(s[i - 1]))})

\* the two `continue` tests of the filtering loop
IsSkipped(part) ==
    \/ ContainsAny(Lower(part), SkipPhrases)
    \/ (WordCount(part) > 20 /\ ContainsAny(Lower(part), ListWords))

\* "No description found"
NoDescriptionFound == <<"N","o"," ","d","e","s","c","r","i","p","t","i","o","n"," ","f","o","u","n","d">>

extract_description(soup) ==
    LET description_parts ==
            CollectMainDiv(CollectContainers(<<>>, soup.containers), soup.main_div)
        Kept(part) == ~IsSkipped(part)
        filtered_parts == SelectSeq(description_parts, Kept)
    IN  IF filtered_parts # <<>>
        THEN Join(filtered_parts, <<" ">>)
        ELSE NoDescriptionFound

\* ----------------------------------------------- scrape_and_save_events

\* A parameter or an element that is None is [has |-> FALSE, s |-> <<>>]
None == [has |-> FALSE, s |-> <<>>]

Some(s) == [has |-> TRUE, s |-> s]

\* "https://www.santamonica.gov"
BaseUrl == <<"h","t","t","p","s",":","/","/","w","w","w",".","s","a","n","t","a","m","o","n","i","c","a",".","g","o","v">>

\* "https://www.santamonica.gov/events?category=4egeeekbnhfx1xw1c1jd0jtvmv&viewMode=month&calendarView=true&dateRange=20250801-20250831"
ListingUrl == <<"h","t","t","p","s",":","/","/","w","w","w",".","s","a","n","t","a","m","o","n","i","c","a",".","g","o","v","/","e","v","e","n","t","s","?","c","a","t","e","g","o","r","y","=","4","e","g","e","e","e","k","b","n","h","f","x","1","x","w","1","c","1","j","d","0","j","t","v","m","v","&","v","i","e","w","M","o","d","e","=","m","o","n","t","h","&","c","a","l","e","n","d","a","r","V","i","e","w","=","t","r","u","e","&","d","a","t","e","R","a","n","g","e","=","2","0","2","5","0","8","0","1","-","2","0","2","5","0","8","3","1">>

StartsWith(s, prefix) == OccursAt(s, prefix, 1)

\* urljoin(base, href) for a base without a path and an href that is
\* absolute, empty, rooted ("/x") or a plain relative path ("x/y")
urljoin(base, href) ==
    IF StartsWith(href, <<"h","t","t","p",":","/","/">>)
       \/ StartsWith(href, <<"h","t","t","p","s",":","/","/">>)
    THEN href
    ELSE IF href = <<>> THEN base
    ELSE IF href[1] = "/" THEN base \o href
    ELSE base \o <<"/">> \o href

\* a plausible slip: the href, not the absolute URL, is looked up
LinkSeenByHref(links, href, absolute_url) ==
    \E i \in 1..Len(links) : links[i] = href

\* `absolute_url in event_links`
LinkSeen(links, href, absolute_url) ==
    \E i \in 1..Len(links) : links[i] = absolute_url

RECURSIVE ExtractLinks(_, _)
\* the loop over soup.select('div.calendar-day-events > a[href]')
ExtractLinks(hrefs, links) ==
    IF hrefs = <<>> THEN links
    ELSE LET absolute_url == urljoin(BaseUrl, hrefs[1])
         IN  ExtractLinks(Tail(hrefs),
                          IF LinkSeen(links, hrefs[1], absolute_url)
                          THEN links ELSE Append(links, absolute_url))

\* "No title found"
NoTitleFound == <<"N","o"," ","t","i","t","l","e"," ","f","o","u","n","d">>

\* "No location found"
NoLocationFound == <<"N","o"," ","l","o","c","a","t","i","o","n"," ","f","o","u","n","d">>

\* "No location link found"
NoLocationLinkFound == <<"N","o"," ","l","o","c","a","t","i","o","n"," ","l","i","n","k"," ","f","o","u","n","d">>

\* "Failed to scrape title"
FailedTitle == <<"F","a","i","l","e","d"," ","t","o"," ","s","c","r","a","p","e"," ","t","i","t","l","e">>

\* "Failed to scrape date"
FailedDate == <<"F","a","i","l","e","d"," ","t","o"," ","s","c","r","a","p","e"," ","d","a","t","e">>

\* "Failed to scrape time"
FailedTime == <<"F","a","i","l","e","d"," ","t","o"," ","s","c","r","a","p","e"," ","t","i","m","e">>

\* "Failed to scrape location"
FailedLocation == <<"F","a","i","l","e","d"," ","t","o"," ","s","c","r","a","p","e"," ","l","o","c","a","t","i","o","n">>

\* "Failed to scrape location link"
FailedLocationLink == <<"F","a","i","l","e","d"," ","t","o"," ","s","c","r","a","p","e"," ","l","o","c","a","t","i","o","n"," ","l","i","n","k">>

\* "Failed to scrape description"
FailedDescription == <<"F","a","i","l","e","d"," ","t","o"," ","s","c","r","a","p","e"," ","d","e","s","c","r","i","p","t","i","o","n">>

\* element.get_text(strip=True) if element else default
TextOr(element, default) == IF element.has THEN Strip(element.s) ELSE default

\* An event page is [title, date, time, location_link, location_href,
\* location_cell, detail1, detail2 |-> the selected element or None,
\* soup |-> the page as extract_description reads it]

NonEmpty(s) == s # <<>>

\* the try block of the loop body: the record of a page that was retrieved
ExtractEvent(event_url, page) ==
    LET name_from_link == TextOr(page.location_link, <<>>)
        location_name ==
            IF name_from_link = <<>> /\ page.location_cell.has
            THEN Strip(page.location_cell.s)
            ELSE name_from_link
        location_parts ==
            SelectSeq(<<location_name, TextOr(page.detail1, <<>>),
                        TextOr(page.detail2, <<>>)>>, NonEmpty)
    IN  [url           |-> event_url,
         title         |-> TextOr(page.title, NoTitleFound),
         date          |-> TextOr(page.date, NoDateFound),
         time          |-> TextOr(page.time, NoTimeFound),
         location      |-> IF location_parts # <<>>
                           THEN Join(location_parts, CommaSpace)
                           ELSE NoLocationFound,
         location_link |-> IF page.location_link.has
                           THEN page.location_href.s
                           ELSE NoLocationLinkFound,
         description   |-> extract_description(page.soup)]

\* the except block of the loop body
FailedEvent(event_url) ==
    [url           |-> event_url,
     title         |-> FailedTitle,
     date          |-> FailedDate,
     time          |-> FailedTime,
     location      |-> FailedLocation,
     location_link |-> FailedLocationLink,
     description   |-> FailedDescription]

\* f'events_week_{target_week}_{week_start_day.lower()}.json'
WeekFileName(target, day) ==
    <<"e","v","e","n","t","s","_","w","e","e","k","_">> \o target \o <<"_">>
    \o Lower(day) \o <<".","j","s","o","n">>

NotWritten == [written |-> FALSE, name |-> <<>>, content |-> <<>>]

\* --------------------------------------------------------------- inputs

\* how many hrefs a listing page holds at most
MaxHrefs == 3

\* how many div.container elements a page holds at most
MaxContainers == 2

\* how many events a list handed to the week functions holds at most
MaxEvents == 3

\* the sequences over S of length at most n
SeqsUpTo(S, n) == UNION {[1..k -> S] : k \in 0..n}

\* the sequences of distinct elements of S of length at most n
DistinctSeqsUpTo(S, n) ==
    {s \in SeqsUpTo(S, n) : \A i, j \in 1..Len(s) : i # j => s[i] # s[j]}

\* "Join us for yoga in the park."
TextYoga == <<"J","o","i","n"," ","u","s"," ","f","o","r"," ","y","o","g","a"," ","i","n"," ","t","h","e"," ","p","a","r","k",".">>

\* "Bring a mat."
TextMat == <<"B","r","i","n","g"," ","a"," ","m","a","t",".">>

\* "Contact Us for details."
TextContact == <<"C","o","n","t","a","c","t"," ","U","s"," ","f","o","r"," ","d","e","t","a","i","l","s",".">>

\* "Free entry"
TextFree == <<"F","r","e","e"," ","e","n","t","r","y">>

\* "Hello"
TextHello == <<"H","e","l","l","o">>

\* "Sign up"
TextSignUp == <<"S","i","g","n"," ","u","p">>

\* "Doors at seven sharp"
TextDoors == <<"D","o","o","r","s"," ","a","t"," ","s","e","v","e","n"," ","s","h","a","r","p">>

\* "  Join us for yoga in the park.  "
TextPadded == <<" "," ","J","o","i","n"," ","u","s"," ","f","o","r"," ","y","o","g","a"," ","i","n"," ","t","h","e"," ","p","a","r","k","."," "," ">>

\* "City services include parks and pools and trails and courts and fields and gyms and labs and art and music and dance"
TextLinks == <<"C","i","t","y"," ","s","e","r","v","i","c","e","s"," ","i","n","c","l","u","d","e"," ","p","a","r","k","s"," ","a","n","d"," ","p","o","o","l","s"," ","a","n","d"," ","t","r","a","i","l","s"," ","a","n","d"," ","c","o","u","r","t","s"," ","a","n","d"," ","f","i","e","l","d","s"," ","a","n","d"," ","g","y","m","s"," ","a","n","d"," ","l","a","b","s"," ","a","n","d"," ","a","r","t"," ","a","n","d"," ","m","u","s","i","c"," ","a","n","d"," ","d","a","n","c","e">>

TextNode(s) == [tag |-> "text", s |-> s]

INode(s) == [tag |-> "i", s |-> s]

ANode(s) == [tag |-> "a", s |-> s]

\* two paragraphs of prose
ContainerProse == [ps |-> << <<TextNode(TextYoga)>>, <<TextNode(TextMat)>> >>, lis |-> <<>>]

\* the first paragraph again, in another place, and a list item
ContainerRepeat == [ps |-> << <<TextNode(TextYoga)>> >>, lis |-> <<TextFree>>]

\* a paragraph that is one italic span of ten characters
ContainerItalic == [ps |-> << <<INode(TextFree)>> >>, lis |-> <<>>]

\* a paragraph of navigation text
ContainerContact == [ps |-> << <<TextNode(TextContact)>> >>, lis |-> <<>>]

\* a container without text
ContainerEmpty == [ps |-> <<>>, lis |-> <<>>]

\* a paragraph with a link in it
ContainerLink == [ps |-> << <<TextNode(TextMat), ANode(TextSignUp)>> >>, lis |-> <<>>]

\* a long list of links and a short list item
ContainerLinks == [ps |-> << <<TextNode(TextLinks)>> >>, lis |-> <<TextHello>>]

ContainerPool ==
    {ContainerProse, ContainerRepeat, ContainerItalic, ContainerContact,
     ContainerEmpty, ContainerLink, ContainerLinks}

\* the children of main > div: none, a text node, an element with one
\* string, an element whose .string is None
MainDivPool ==
    { <<>>,
      <<[string |-> TextPadded]>>,
      <<[string |-> TextDoors]>>,
      <<[string |-> <<>>], [string |-> TextContact]>> }

SoupPool ==
    {[containers |-> cs, main_div |-> m] :
        cs \in SeqsUpTo(ContainerPool, MaxContainers), m \in MainDivPool}

\* "/events/a"
HrefRootedA == <<"/","e","v","e","n","t","s","/","a">>

\* "https://www.santamonica.gov/events/a"
HrefAbsoluteA == <<"h","t","t","p","s",":","/","/","w","w","w",".","s","a","n","t","a","m","o","n","i","c","a",".","g","o","v","/","e","v","e","n","t","s","/","a">>

\* "events/b"
HrefRelativeB == <<"e","v","e","n","t","s","/","b">>

\* "/events/c"
HrefRootedC == <<"/","e","v","e","n","t","s","/","c">>

\* "Yoga in the Park"
TitleYoga == <<"Y","o","g","a"," ","i","n"," ","t","h","e"," ","P","a","r","k">>

\* "  Online Talk "
TitleTalk == <<" "," ","O","n","l","i","n","e"," ","T","a","l","k"," ">>

\* "Monday, Aug 4, 2025"
DateMonAug4 == <<"M","o","n","d","a","y",","," ","A","u","g"," ","4",","," ","2","0","2","5">>

\* "Mon, Aug 4, 2025"
DateMonAug4Short == <<"M","o","n",","," ","A","u","g"," ","4",","," ","2","0","2","5">>

\* "Sunday, Aug 3, 2025"
DateSunAug3 == <<"S","u","n","d","a","y",","," ","A","u","g"," ","3",","," ","2","0","2","5">>

\* "Sunday, Aug 10, 2025"
DateSunAug10 == <<"S","u","n","d","a","y",","," ","A","u","g"," ","1","0",","," ","2","0","2","5">>

\* "Monday, Aug 4, 2025, rescheduled"
DateFourSegments == <<"M","o","n","d","a","y",","," ","A","u","g"," ","4",","," ","2","0","2","5",","," ","r","e","s","c","h","e","d","u","l","e","d">>

\* "garbage"
DateGarbage == <<"g","a","r","b","a","g","e">>

\* "2:00 PM - 3:30 PM"
TimeAfternoon == <<"2",":","0","0"," ","P","M"," ","-"," ","3",":","3","0"," ","P","M">>

\* "10:30 AM"
TimeMorning == <<"1","0",":","3","0"," ","A","M">>

\* "9:00 AM"
TimeNine == <<"9",":","0","0"," ","A","M">>

\* "12:15 PM"
TimeNoon == <<"1","2",":","1","5"," ","P","M">>

\* "Palisades Park"
PlaceName == <<"P","a","l","i","s","a","d","e","s"," ","P","a","r","k">>

\* "/places/palisades-park"
PlaceHref == <<"/","p","l","a","c","e","s","/","p","a","l","i","s","a","d","e","s","-","p","a","r","k">>

\* "851 Alma Real Dr"
PlaceStreet == <<"8","5","1"," ","A","l","m","a"," ","R","e","a","l"," ","D","r">>

\* "Virtual"
PlaceVirtual == <<"V","i","r","t","u","a","l">>

\* "2025-08-04"
IsoAug4 == <<"2","0","2","5","-","0","8","-","0","4">>

\* "2025-08-06"
IsoAug6 == <<"2","0","2","5","-","0","8","-","0","6">>

\* "2025-13-01"
IsoBadMonth == <<"2","0","2","5","-","1","3","-","0","1">>

HrefPool == {HrefRootedA, HrefAbsoluteA, HrefRelativeB, HrefRootedC}

\* a page with every element present
PageFull ==
    [title |-> Some(TitleYoga), date |-> Some(DateMonAug4), time |-> Some(TimeAfternoon),
     location_link |-> Some(PlaceName), location_href |-> Some(PlaceHref),
     location_cell |-> Some(PlaceName), detail1 |-> Some(PlaceStreet), detail2 |-> Some(<<>>),
     soup |-> [containers |-> <<ContainerProse>>, main_div |-> <<>>]]

\* a page on which no selector matches
PageBare ==
    [title |-> None, date |-> None, time |-> None,
     location_link |-> None, location_href |-> None,
     location_cell |-> None, detail1 |-> None, detail2 |-> None,
     soup |-> [containers |-> <<>>, main_div |-> <<>>]]

\* a virtual event: a location cell without a link
PageVirtual ==
    [title |-> Some(TitleTalk), date |-> Some(DateSunAug3), time |-> Some(TimeMorning),
     location_link |-> None, location_href |-> None,
     location_cell |-> Some(PlaceVirtual), detail1 |-> None, detail2 |-> None,
     soup |-> [containers |-> <<ContainerContact>>, main_div |-> <<>>]]

PagePool == {PageFull, PageBare, PageVirtual}

\* ------------------------------------------- the run of the whole script

Idle == [s |-> <<>>]

\* the menu choices '1'..'7' the prompt is answered with
ChoicePool == {7}

\* the dates the second prompt is answered with (it accepts valid dates only)
PromptDatePool == {IsoAug4}

\* the two ways the script is started: scrape_and_save_events() asks for
\* both parameters; run_with_week_start(day, target) passes them on unchecked
CallPool == {<<None, None>>, <<Some(DayNames[1]), Some(IsoBadMonth)>>}

Init ==
    /\ pc = "prompt"
    /\ \E call \in CallPool :
          /\ week_start_day = call[1]
          /\ target_week = call[2]
    /\ listing_hrefs = <<>>
    /\ event_links = <<>>
    /\ events_data = <<>>
    /\ requests_log = <<>>
    /\ events_json = NotWritten
    /\ week_json = NotWritten
    /\ console = <<>>
    /\ arg = Idle
    /\ ret = Idle

\* the first prompt loop, answered with a choice of the menu
PromptWeekStartDay ==
    /\ pc = "prompt"
    /\ ~week_start_day.has
    /\ \E choice \in ChoicePool : week_start_day' = Some(DayNames[choice])
    /\ UNCHANGED <<pc, target_week, listing_hrefs, event_links, events_data, requests_log,
                   events_json, week_json, console, arg, ret>>

\* the second prompt loop, answered with a date strptime accepts
PromptTargetWeek ==
    /\ pc = "prompt"
    /\ week_start_day.has
    /\ ~target_week.has
    /\ \E answer \in PromptDatePool :
          /\ StrptimeIso(Strip(answer)).ok
          /\ target_week' = Some(Strip(answer))
    /\ UNCHANGED <<pc, week_start_day, listing_hrefs, event_links, events_data, requests_log,
                   events_json, week_json, console, arg, ret>>

\* KeyboardInterrupt at either prompt: return
PromptCancelled ==
    /\ pc = "prompt"
    /\ (~week_start_day.has \/ (week_start_day.has /\ ~target_week.has))
    /\ pc' = "cancelled"
    /\ UNCHANGED <<week_start_day, target_week, listing_hrefs, event_links, events_data,
                   requests_log, events_json, week_json, console, arg, ret>>

\* the listing page is fetched and parsed, and its links are collected
FetchListingOk ==
    /\ pc = "prompt"
    /\ week_start_day.has
    /\ target_week.has
    /\ \E hrefs \in SeqsUpTo(HrefPool, MaxHrefs) :
          /\ listing_hrefs' = hrefs
          /\ event_links' = ExtractLinks(hrefs, <<>>)
    /\ requests_log' = Append(requests_log, ListingUrl)
    /\ events_data' = <<>>
    /\ pc' = "scrape"
    /\ UNCHANGED <<week_start_day, target_week, events_json, week_json,
                   console, arg, ret>>

\* a plausible slip: the outer handler still writes the (empty) batch
ListingFailureWritesBatch == [written |-> TRUE, name |-> <<>>, content |-> <<>>]

\* events.json after the outer except block
ListingFailureLeaves == events_json

\* requests.get or raise_for_status raises on the listing page: the outer
\* except block prints the error and the function ends
FetchListingFail ==
    /\ pc = "prompt"
    /\ week_start_day.has
    /\ target_week.has
    /\ requests_log' = Append(requests_log, ListingUrl)
    /\ console' = Append(console, [kind |-> "Error", url |-> <<>>])
    /\ events_json' = ListingFailureLeaves
    /\ pc' = "failed"
    /\ UNCHANGED <<week_start_day, target_week, listing_hrefs, event_links, events_data,
                   week_json, arg, ret>>

\* one pass of the loop whose try block completes
ScrapeEventOk ==
    /\ pc = "scrape"
    /\ Len(events_data) < Len(event_links)
    /\ LET event_url == event_links[Len(events_data) + 1]
       IN  /\ requests_log' = Append(requests_log, event_url)
           /\ \E page \in PagePool :
                 events_data' = Append(events_data, ExtractEvent(event_url, page))
    /\ UNCHANGED <<pc, week_start_day, target_week, listing_hrefs, event_links, events_json,
                   week_json, console, arg, ret>>

\* a plausible slip: the handler gives up on the rest of the batch
AfterEventFailureStop == "save"

\* where the loop goes after the except block
AfterEventFailure == "scrape"

\* one pass of the loop whose try block raises
ScrapeEventFail ==
    /\ pc = "scrape"
    /\ Len(events_data) < Len(event_links)
    /\ LET event_url == event_links[Len(events_data) + 1]
       IN  /\ requests_log' = Append(requests_log, event_url)
           /\ events_data' = Append(events_data, FailedEvent(event_url))
           /\ console' = Append(console, [kind |-> "Error scraping", url |-> event_url])
    /\ pc' = AfterEventFailure
    /\ UNCHANGED <<week_start_day, target_week, listing_hrefs, event_links, events_json,
                   week_json, arg, ret>>

\* the loop has ended: events.json is written
SaveEvents ==
    /\ pc \in {"scrape", "save"}
    /\ (pc = "scrape" => Len(events_data) = Len(event_links))
    /\ events_json' = [written |-> TRUE,
                       name    |-> <<"e","v","e","n","t","s",".","j","s","o","n">>,
                       content |-> events_data]
    /\ pc' = "filter"
    /\ UNCHANGED <<week_start_day, target_week, listing_hrefs, event_links, events_data,
                   requests_log, week_json, console, arg, ret>>

\* the batch is filtered and the week's file is written
FilterAndSaveWeek ==
    /\ pc = "filter"
    /\ week_json' = [written |-> TRUE,
                     name    |-> WeekFileName(target_week.s, week_start_day.s),
                     content |-> filter_events_by_week(events_data, target_week.s,
                                                       week_start_day.s)]
    /\ pc' = "done"
    /\ UNCHANGED <<week_start_day, target_week, listing_hrefs, event_links, events_data,
                   requests_log, events_json, console, arg, ret>>

Next ==
    \/ PromptWeekStartDay
    \/ PromptTargetWeek
    \/ PromptCancelled
    \/ FetchListingOk
    \/ FetchListingFail
    \/ ScrapeEventOk
    \/ ScrapeEventFail
    \/ SaveEvents
    \/ FilterAndSaveWeek

Spec == Init /\ [][Next]_vars

\* -------------------------------------- parse_time_to_minutes, called

\* the state of the script's run while one function is called on its own
NoRun ==
    /\ week_start_day = None
    /\ target_week = None
    /\ listing_hrefs = <<>>
    /\ event_links = <<>>
    /\ events_data = <<>>
    /\ requests_log = <<>>
    /\ events_json = NotWritten
    /\ week_json = NotWritten
    /\ console = <<>>

NoRunChange ==
    UNCHANGED <<week_start_day, target_week, listing_hrefs, event_links,
                events_data, requests_log, events_json, week_json, console>>

RECURSIVE FormatInt(_)
\* str(n), n >= 0
FormatInt(n) ==
    IF n < 10 THEN <<DigitChars[n + 1]>>
    ELSE FormatInt(n \div 10) \o <<DigitChars[(n % 10) + 1]>>

\* n as two digits
FormatTwo(n) == <<DigitChars[(n \div 10) + 1], DigitChars[(n % 10) + 1]>>

\* "H:MM AM", or "HH:MM AM" when padded
FormatTime(h, m, pm, padded) ==
    (IF padded THEN FormatTwo(h) ELSE FormatInt(h)) \o <<":">> \o FormatTwo(m)
    \o <<" ">> \o (IF pm = 1 THEN <<"P","M">> ELSE <<"A","M">>)

\* " - 3:30 PM"
EndHalfPastThree == <<" ","-"," ","3",":","3","0"," ","P","M">>

\* " - 11:59 PM"
EndBeforeMidnight == <<" ","-"," ","1","1",":","5","9"," ","P","M">>

\* "0:30 AM"
TimeHourZero == <<"0",":","3","0"," ","A","M">>

\* "13:00 PM"
TimeHourThirteen == <<"1","3",":","0","0"," ","P","M">>

\* "2:60 PM"
TimeMinuteSixty == <<"2",":","6","0"," ","P","M">>

\* "2:00PM"
TimeNoBlank == <<"2",":","0","0","P","M">>

\* "14:00"
TimeTwentyFour == <<"1","4",":","0","0">>

\* "All day"
TimeAllDay == <<"A","l","l"," ","d","a","y">>

\* "2:00 PM-3:30 PM"
TimeNoBlankRange == <<"2",":","0","0"," ","P","M","-","3",":","3","0"," ","P","M">>

EndPool == {<<>>, EndHalfPastThree, EndBeforeMidnight}

MalformedTimePool ==
    {TimeHourZero, TimeHourThirteen, TimeMinuteSixty, TimeNoBlank, TimeTwentyFour,
     TimeAllDay, TimeNoBlankRange, FailedTime}

TimeInputs ==
    {[kind |-> "valid", h |-> h, m |-> m, pm |-> pm,
      s |-> FormatTime(h, m, pm, padded) \o end] :
        h \in 1..12, m \in 0..59, pm \in {0, 1}, padded \in BOOLEAN, end \in EndPool}
    \cup {[kind |-> "malformed", h |-> 0, m |-> 0, pm |-> 0, s |-> s \o end] :
        s \in MalformedTimePool, end \in EndPool}
    \cup {[kind |-> "absent", h |-> 0, m |-> 0, pm |-> 0, s |-> s] :
        s \in {<<>>, NoTimeFound}}

InitTime ==
    /\ pc = "call"
    /\ arg \in TimeInputs
    /\ ret = Idle
    /\ NoRun

CallParseTimeToMinutes ==
    /\ pc = "call"
    /\ ret' = [minutes |-> parse_time_to_minutes(arg.s)]
    /\ pc' = "time_returned"
    /\ UNCHANGED arg
    /\ NoRunChange

NextTime == CallParseTimeToMinutes

SpecTime == InitTime /\ [][NextTime]_vars

\* C5: a valid 12-hour start time gives its minutes since midnight, in
\* 0..1439, whatever end time follows " - "; "", "No time found" and a
\* malformed start time give 0.
TimeParserCorrect ==
    pc = "time_returned" =>
        /\ arg.kind = "valid" =>
              /\ ret.minutes = (((arg.h % 12) + 12 * arg.pm) * 60) + arg.m
              /\ ret.minutes \in 0..1439
        /\ arg.kind \in {"malformed", "absent"} => ret.minutes = 0

\* "2:00 PM - 3:30 PM" gave 840, "12:05 AM" style inputs are covered by h = 12
TimeParserWitness ==
    /\ pc = "time_returned"
    /\ arg.s = TimeAfternoon
    /\ ret.minutes = 840

\* ------------------------------------------------ the date parse, called

\* the month names as the site prints them
MonthNames == << <<"J","a","n">>, <<"F","e","b">>, <<"M","a","r">>, <<"A","p","r">>, <<"M","a","y">>, <<"J","u","n">>, <<"J","u","l">>, <<"A","u","g">>, <<"S","e","p">>, <<"O","c","t">>, <<"N","o","v">>, <<"D","e","c">> >>

\* "Aug 4"
FormatMonthDay(m, d) == MonthNames[m] \o <<" ">> \o FormatInt(d)

\* "Monday, Aug 4, 2025" for form "three"; without the weekday for "two";
\* with a fourth segment for "four"
FormatEventDate(form, y, m, d) ==
    LET weekday == DayNames[Weekday(Midnight(y, m, d)) + 1]
        core    == FormatMonthDay(m, d) \o CommaSpace \o FormatInt(y)
    IN  IF form = "two" THEN core
        ELSE IF form = "three" THEN weekday \o CommaSpace \o core
        ELSE weekday \o CommaSpace \o core \o CommaSpace
             \o <<"r","e","s","c","h","e","d","u","l","e","d">>

\* "Monday, August 4, 2025"
DateFullMonth == <<"M","o","n","d","a","y",","," ","A","u","g","u","s","t"," ","4",","," ","2","0","2","5">>

\* "Monday, Aug 4, 25"
DateShortYear == <<"M","o","n","d","a","y",","," ","A","u","g"," ","4",","," ","2","5">>

\* "Monday,Aug 4,2025"
DateNoBlanks == <<"M","o","n","d","a","y",",","A","u","g"," ","4",",","2","0","2","5">>

\* "Monday, Aug 1, 2025"
DateMonAug1 == <<"M","o","n","d","a","y",","," ","A","u","g"," ","1",","," ","2","0","2","5">>

MalformedDatePool ==
    {DateGarbage, NoDateFound, FailedDate, DateFullMonth, DateShortYear, DateNoBlanks, <<>>}

YearPool == {2024, 2025}

DateInputs ==
    {[kind |-> "formatted", form |-> form, y |-> y, m |-> m, d |-> d,
      s |-> FormatEventDate(form, y, m, d)] :
        form \in {"two", "three", "four"}, y \in YearPool, m \in 1..12, d \in 1..31}
    \cup {[kind |-> "formatted", form |-> "three", y |-> 2025, m |-> 8, d |-> 1,
            s |-> DateMonAug1]}
    \cup {[kind |-> "malformed", form |-> "none", y |-> 0, m |-> 0, d |-> 0, s |-> s] :
        s \in MalformedDatePool}

\* a record with the given date and time, as the batch holds it
EventOf(url, date, time) ==
    [url |-> url, title |-> TitleYoga, date |-> date, time |-> time,
     location |-> NoLocationFound, location_link |-> NoLocationLinkFound,
     description |-> NoDescriptionFound]

InitDate ==
    /\ pc = "call"
    /\ arg \in DateInputs
    /\ ret = Idle
    /\ NoRun

\* the key function of sorted(organized_events.keys(), ...)
CallParseDateForSorting ==
    /\ pc = "call"
    /\ ret' = [dt |-> parse_date_for_sorting(arg.s), included |-> FALSE]
    /\ pc' = "sorting_returned"
    /\ UNCHANGED arg
    /\ NoRunChange

\* the key function of filtered_events.sort(...)
CallSortKey ==
    /\ pc = "call"
    /\ LET key == sort_key(EventOf(HrefRootedA, arg.s, TimeMorning))
       IN  ret' = [dt |-> [ord |-> key[1], sec |-> key[2]], included |-> FALSE]
    /\ pc' = "sort_key_returned"
    /\ UNCHANGED arg
    /\ NoRunChange

\* the week filter on a batch of this one event, for the week of 2025-08-04
CallFilterOnOne ==
    /\ pc = "call"
    /\ LET kept == filter_events_by_week(<<EventOf(HrefRootedA, arg.s, TimeMorning)>>,
                                         IsoAug4, DayNames[1])
       IN  ret' = [dt |-> DatetimeMax, included |-> kept # <<>>]
    /\ pc' = "filter_one_returned"
    /\ UNCHANGED arg
    /\ NoRunChange

NextDate == CallParseDateForSorting \/ CallSortKey \/ CallFilterOnOne

SpecDate == InitDate /\ [][NextDate]_vars

\* what the date string spells, when its month, day and year make a date
SpelledDateIsReal == arg.kind = "formatted" /\ arg.d <= DaysInMonth(arg.y, arg.m)

\* C9 as stated: every string that has not exactly three segments, and every
\* string with an unparsable fragment, yields the sentinel at both call sites
\* and is left out by the week filter.
DateParserExactlyThreeSegments ==
    /\ pc \in {"sorting_returned", "sort_key_returned"} =>
          ret.dt = IF SpelledDateIsReal /\ arg.form = "three"
                   THEN Midnight(arg.y, arg.m, arg.d) ELSE DatetimeMax
    /\ pc = "filter_one_returned" =>
          (ret.included => SpelledDateIsReal /\ arg.form = "three")

\* C9 as amended: a string with fewer than three segments, or with an
\* unparsable second or third segment, yields the sentinel at both call sites
\* and is left out by the week filter; a string with three segments or more
\* yields the date its second and third segments spell, the further segments
\* being ignored.
DateParserAtLeastThreeSegments ==
    /\ pc \in {"sorting_returned", "sort_key_returned"} =>
          /\ ret.dt = IF SpelledDateIsReal /\ arg.form \in {"three", "four"}
                      THEN Midnight(arg.y, arg.m, arg.d) ELSE DatetimeMax
          /\ arg.s = DateMonAug1 => ret.dt = [ord |-> 739464, sec |-> 0]
          /\ arg.s = DateGarbage => ret.dt = DatetimeMax
    /\ pc = "filter_one_returned" =>
          (ret.included <=>
              /\ SpelledDateIsReal
              /\ arg.form \in {"three", "four"}
              /\ arg.y = 2025 /\ arg.m = 8 /\ arg.d \in 4..10)

\* a four-segment string was parsed to the date of its second and third segment
DateParserWitness ==
    /\ pc = "sort_key_returned"
    /\ arg.kind = "formatted"
    /\ arg.form = "four"
    /\ arg.s = DateFourSegments
    /\ ret.dt = Midnight(2025, 8, 4)

\* ------------------------------------------- the week functions, called

\* "/e/1"
UrlOne == <<"/","e","/","1">>

\* "/e/2"
UrlTwo == <<"/","e","/","2">>

\* "/e/3"
UrlThree == <<"/","e","/","3">>

\* "/e/4"
UrlFour == <<"/","e","/","4">>

\* "/e/5"
UrlFive == <<"/","e","/","5">>

\* "/e/6"
UrlSix == <<"/","e","/","6">>

\* "/e/7"
UrlSeven == <<"/","e","/","7">>

EventPool ==
    {EventOf(UrlOne,   DateMonAug4,      TimeAfternoon),
     EventOf(UrlTwo,   DateMonAug4,      TimeMorning),
     EventOf(UrlThree, DateMonAug4Short, NoTimeFound),
     EventOf(UrlFour,  DateSunAug3,      TimeNine),
     EventOf(UrlFive,  DateSunAug10,     TimeNoon),
     EventOf(UrlSix,   NoDateFound,      NoTimeFound),
     EventOf(UrlSeven, FailedDate,       FailedTime)}

TargetPool == {IsoAug4, IsoAug6}

InitWeek ==
    /\ pc = "call"
    /\ arg \in [events : DistinctSeqsUpTo(EventPool, MaxEvents),
                target : TargetPool,
                day    : {DayNames[i] : i \in 1..7}]
    /\ ret = Idle
    /\ NoRun

CallFilterEventsByWeek ==
    /\ pc = "call"
    /\ ret' = [events |-> filter_events_by_week(arg.events, arg.target, arg.day)]
    /\ pc' = "filter_returned"
    /\ UNCHANGED arg
    /\ NoRunChange

CallOrganizeEventsByDate ==
    /\ pc = "call"
    /\ ret' = [groups |-> organize_events_by_date(arg.events)]
    /\ pc' = "organize_returned"
    /\ UNCHANGED arg
    /\ NoRunChange

NextWeek == CallFilterEventsByWeek \/ CallOrganizeEventsByDate

SpecWeek == InitWeek /\ [][NextWeek]_vars

\* how often x occurs in the sequence s
Count(s, x) == Cardinality({i \in 1..Len(s) : s[i] = x})

\* the date strings and the time strings of the pool, parsed once
ParsedPoolDate == [s \in {e.date : e \in EventPool} |-> ParseEventDate(s)]

PoolMinutes == [s \in {e.time : e \in EventPool} |-> parse_time_to_minutes(s)]

ParsedTarget == [s \in TargetPool |-> StrptimeIso(s).dt]

DayIndex == [day \in {DayNames[i] : i \in 1..7} |-> (CHOOSE i \in 1..7 : DayNames[i] = day) - 1]

\* the date an event's date field parses to
DateOf(e) == ParsedPoolDate[e.date]

\* the minutes an event's time field parses to
MinutesOf(e) == PoolMinutes[e.time]

\* the day of the seven ending at the target that falls on the week's first day
ExpectedWeekStart ==
    LET target == ParsedTarget[arg.target]
    IN  CHOOSE dt \in {PlusDays(target, 0 - k) : k \in 0..6} :
            Weekday(dt) = DayIndex[arg.day]

DateTimeOrdered(a, b) ==
    \/ (DtLE(DateOf(a).dt, DateOf(b).dt) /\ DateOf(a).dt # DateOf(b).dt)
    \/ (DateOf(a).dt = DateOf(b).dt /\ MinutesOf(a) <= MinutesOf(b))

\* C3: consecutive events of the week filter's output are in ascending
\* (date, start minutes) order, and consecutive events of every group of
\* organize_events_by_date are in ascending start-minutes order.
OutputSortedByDateAndTime ==
    /\ pc = "filter_returned" =>
          \A i \in 1..(Len(ret.events) - 1) :
              DateTimeOrdered(ret.events[i], ret.events[i + 1])
    /\ pc = "organize_returned" =>
          \A g \in 1..Len(ret.groups) :
              \A i \in 1..(Len(ret.groups[g].events) - 1) :
                  /\ DateTimeOrdered(ret.groups[g].events[i], ret.groups[g].events[i + 1])
                  /\ MinutesOf(ret.groups[g].events[i])
                        <= MinutesOf(ret.groups[g].events[i + 1])

\* two events of one date came in with the later time first and went out
\* with the earlier time first
SortedWitness ==
    /\ pc = "filter_returned"
    /\ Len(arg.events) = 2
    /\ arg.events[1].date = arg.events[2].date
    /\ MinutesOf(arg.events[1]) > MinutesOf(arg.events[2])
    /\ ret.events = <<arg.events[2], arg.events[1]>>

\* C4: organize_events_by_date keys its groups by the raw date string: the
\* keys are distinct, a group holds events of its own key only, every input
\* event is in exactly one group; the groups are in ascending order of the
\* parsed date, the unparsable keys after all parsable ones.
OrganizeGroupsByRawDate ==
    pc = "organize_returned" =>
        LET groups == ret.groups
        IN  /\ \A g, h \in 1..Len(groups) : g # h => groups[g].date # groups[h].date
            /\ \A g \in 1..Len(groups) :
                  /\ groups[g].events # <<>>
                  /\ \A i \in 1..Len(groups[g].events) :
                        groups[g].events[i].date = groups[g].date
            /\ \A e \in EventPool :
                  /\ Count(arg.events, e) > 0 =>
                        \E g \in 1..Len(groups) :
                            /\ groups[g].date = e.date
                            /\ Count(groups[g].events, e) = 1
                  /\ Count(arg.events, e) = 0 =>
                        \A g \in 1..Len(groups) : Count(groups[g].events, e) = 0
            /\ \A g, h \in 1..Len(groups) :
                  g < h =>
                      /\ DtLE(ParsedPoolDate[groups[g].date].dt,
                              ParsedPoolDate[groups[h].date].dt)
                      /\ ~ParsedPoolDate[groups[g].date].ok
                            => ~ParsedPoolDate[groups[h].date].ok
            /\ (\E i, j \in 1..Len(arg.events) :
                    arg.events[i].date = DateMonAug4 /\ arg.events[j].date = DateMonAug4Short)
                  => \E g, h \in 1..Len(groups) :
                        /\ g # h
                        /\ groups[g].date = DateMonAug4
                        /\ groups[h].date = DateMonAug4Short

\* "Monday, Aug 4, 2025" came in before "Sunday, Aug 3, 2025" and after
\* "No date found": the groups went out as Aug 3, Aug 4, "No date found",
\* which is neither the insertion order nor the order of the strings
OrganizeWitness ==
    /\ pc = "organize_returned"
    /\ Len(arg.events) = 3
    /\ arg.events[1].date = NoDateFound
    /\ arg.events[2].date = DateMonAug4
    /\ arg.events[3].date = DateSunAug3
    /\ Len(ret.groups) = 3
    /\ ret.groups[1].date = DateSunAug3
    /\ ret.groups[2].date = DateMonAug4
    /\ ret.groups[3].date = NoDateFound

\* C8: the week filter's output holds no event whose date does not parse,
\* whatever the week; organize_events_by_date keeps every such event, in the
\* group of its raw date string, after every group whose key parses.
MalformedDatesDroppedOrLast ==
    /\ pc = "filter_returned" =>
          /\ \A i \in 1..Len(ret.events) : DateOf(ret.events[i]).ok
          /\ \A i \in 1..Len(ret.events) :
                ret.events[i].date \notin {NoDateFound, FailedDate}
    /\ pc = "organize_returned" =>
          \A i \in 1..Len(arg.events) :
              ~DateOf(arg.events[i]).ok =>
                  \E g \in 1..Len(ret.groups) :
                      /\ ret.groups[g].date = arg.events[i].date
                      /\ Count(ret.groups[g].events, arg.events[i]) = 1
                      /\ \A h \in 1..Len(ret.groups) :
                            ParsedPoolDate[ret.groups[h].date].ok => h < g

\* a batch with a "Failed to scrape date" record and a parsable one was
\* organized: the failed record is in the last group
MalformedDatesWitness ==
    /\ pc = "organize_returned"
    /\ Len(arg.events) = 2
    /\ arg.events[1].date = FailedDate
    /\ arg.events[2].date = DateMonAug4
    /\ ret.groups[2].date = FailedDate
    /\ ret.groups[2].events = <<arg.events[1]>>

\* ---------------------------------------- extract_description, called

InitDescription ==
    /\ pc = "call"
    /\ arg \in [soup : SoupPool]
    /\ ret = Idle
    /\ NoRun

CallExtractDescription ==
    /\ pc = "call"
    /\ ret' = [description |-> extract_description(arg.soup)]
    /\ pc' = "description_returned"
    /\ UNCHANGED arg
    /\ NoRunChange

NextDescription == CallExtractDescription

SpecDescription == InitDescription /\ [][NextDescription]_vars

\* every text the five steps look at, with the length it must exceed, in
\* the order the steps look at it
ContainerCandidates(c) ==
    IF ContainerText(c) = <<>> THEN <<>>
    ELSE [i \in 1..Len(c.ps) |-> [text |-> ParagraphText(c.ps[i]), over |-> 10]]
         \o LET i_texts == InlineTexts(c.ps, "i")
            IN  [i \in 1..Len(i_texts) |-> [text |-> i_texts[i], over |-> 5]]
         \o [i \in 1..Len(c.lis) |-> [text |-> Strip(c.lis[i]), over |-> 5]]
         \o LET a_texts == InlineTexts(c.ps, "a")
            IN  [i \in 1..Len(a_texts) |-> [text |-> a_texts[i], over |-> 5]]

RECURSIVE AllContainerCandidates(_)
AllContainerCandidates(containers) ==
    IF containers = <<>> THEN <<>>
    ELSE ContainerCandidates(containers[1]) \o AllContainerCandidates(Tail(containers))

Candidates(soup) ==
    AllContainerCandidates(soup.containers)
    \o [i \in 1..Len(soup.main_div) |->
           [text |-> Strip(soup.main_div[i].string), over |-> 10]]

\* the candidate is long enough to be collected
Qualifies(c) == Len(c.text) > c.over

\* the text holds a phrase of the denylist, or is a long list of links
Denied(text) ==
    \/ \E i \in 1..Len(SkipPhrases) : Contains(Lower(text), SkipPhrases[i])
    \/ /\ Len(Split(text, <<" ">>)) > 20
       /\ \E i \in 1..Len(ListWords) : Contains(Lower(text), ListWords[i])

\* the candidates that remain: long enough, the first of their text, not denied
Remaining(soup) ==
    LET cs == Candidates(soup)
        Stays(i) ==
            /\ Qualifies(cs[i])
            /\ ~Denied(cs[i].text)
            /\ \A j \in 1..(i - 1) : ~(Qualifies(cs[j]) /\ cs[j].text = cs[i].text)
        F[i \in 0..Len(cs)] ==
            IF i = 0 THEN <<>>
            ELSE IF Stays(i) THEN Append(F[i - 1], cs[i].text) ELSE F[i - 1]
    IN  F[Len(cs)]

\* "Contact Us"
ContactUs == <<"C","o","n","t","a","c","t"," ","U","s">>

\* "Join us for yoga in the park. Bring a mat. Free entry"
ProseThenRepeat == <<"J","o","i","n"," ","u","s"," ","f","o","r"," ","y","o","g","a"," ","i","n"," ","t","h","e"," ","p","a","r","k","."," ","B","r","i","n","g"," ","a"," ","m","a","t","."," ","F","r","e","e"," ","e","n","t","r","y">>

\* C6: the description is the single-space join, in collection order, of
\* the candidates that remain after deduplication by exact text across all
\* steps and containers and after the filter; a denied text is in no
\* description; the sentinel is returned exactly when nothing remains.
DescriptionIsJoinOfRemaining ==
    pc = "description_returned" =>
        LET remaining == Remaining(arg.soup)
        IN  /\ ret.description =
                  IF remaining = <<>> THEN NoDescriptionFound
                  ELSE Join(remaining, <<" ">>)
            /\ (ret.description = NoDescriptionFound) <=> (remaining = <<>>)
            /\ \A i, j \in 1..Len(remaining) : i # j => remaining[i] # remaining[j]
            /\ ~Contains(ret.description, ContactUs)

\* the same paragraph stood in two containers and is in the description once
DescriptionWitness ==
    /\ pc = "description_returned"
    /\ arg.soup.containers = <<ContainerProse, ContainerRepeat>>
    /\ arg.soup.main_div = <<>>
    /\ ret.description = ProseThenRepeat

\* ------------------------------------------------- the run, its claims

\* "Failed to scrape "
FailedPrefix == <<"F","a","i","l","e","d"," ","t","o"," ","s","c","r","a","p","e"," ">>

\* the name of each field of a record, as the sentinel spells it
FieldWords ==
    [url           |-> <<"u","r","l">>,
     title         |-> <<"t","i","t","l","e">>,
     date          |-> <<"d","a","t","e">>,
     time          |-> <<"t","i","m","e">>,
     location      |-> <<"l","o","c","a","t","i","o","n">>,
     location_link |-> <<"l","o","c","a","t","i","o","n"," ","l","i","n","k">>,
     description   |-> <<"d","e","s","c","r","i","p","t","i","o","n">>]

\* the positions of the batch whose link failed: the console names their URL
FailedIndexes ==
    {i \in 1..Len(events_data) :
        \E k \in 1..Len(console) :
            console[k].kind = "Error scraping" /\ console[k].url = event_links[i]}

\* the run is past the loop over the links
LoopEnded == pc \in {"save", "filter", "done"}

\* C1 as stated: every field of a failing link's record, the url included,
\* is "Failed to scrape <field>".
FailureRecordEveryField ==
    \A i \in FailedIndexes :
        \A f \in DOMAIN events_data[i] :
            events_data[i][f] = FailedPrefix \o FieldWords[f]

\* C1 as amended: a failing link gives one record whose url is the link and
\* whose six other fields are the six distinct "Failed to scrape <field>"
\* strings; the loop goes on to every later link, so the batch ends with
\* exactly one record per discovered link.
FailureRecordAndContinue ==
    /\ \A i \in FailedIndexes :
          /\ events_data[i].url = event_links[i]
          /\ \A f \in DOMAIN events_data[i] \ {"url"} :
                events_data[i][f] = FailedPrefix \o FieldWords[f]
          /\ \A f, g \in DOMAIN events_data[i] :
                f # g => events_data[i][f] # events_data[i][g]
    /\ Cardinality(FailedIndexes)
          = Cardinality({k \in 1..Len(console) : console[k].kind = "Error scraping"})
    /\ LoopEnded =>
          /\ Len(events_data) = Len(event_links)
          /\ \A i \in 1..Len(event_links) : events_data[i].url = event_links[i]

\* the first of three links failed and the two after it were scraped
FailureRecordWitness ==
    /\ pc = "done"
    /\ Len(event_links) = 3
    /\ FailedIndexes = {1}
    /\ Len(events_data) = 3
    /\ events_data[1].title = FailedTitle
    /\ events_data[2].title # FailedTitle
    /\ events_data[3].title # FailedTitle

AbsoluteUrls == [k \in 1..Len(listing_hrefs) |-> urljoin(BaseUrl, listing_hrefs[k])]

\* where a URL is first seen on the listing page
FirstSeen(u) == SetMin({k \in 1..Len(listing_hrefs) : AbsoluteUrls[k] = u})

\* C10: event_links holds every absolute URL of the listing page once,
\* in first-seen order; the requests are the listing page and then the
\* links in that order, one request per link processed; the i-th record
\* carries the i-th link.
LinksOnceAndInOrder ==
    pc \in {"scrape", "save", "filter", "done"} =>
        /\ \A i, j \in 1..Len(event_links) : i # j => event_links[i] # event_links[j]
        /\ {event_links[i] : i \in 1..Len(event_links)}
              = {AbsoluteUrls[k] : k \in 1..Len(listing_hrefs)}
        /\ \A i, j \in 1..Len(event_links) :
              i < j => FirstSeen(event_links[i]) < FirstSeen(event_links[j])
        /\ Len(events_data) <= Len(event_links)
        /\ requests_log = <<ListingUrl>> \o SubSeq(event_links, 1, Len(events_data))
        /\ \A i \in 1..Len(events_data) : events_data[i].url = event_links[i]
        /\ LoopEnded => Len(events_data) = Len(event_links)

\* "https://www.santamonica.gov/events/a"
UrlEventA == <<"h","t","t","p","s",":","/","/","w","w","w",".","s","a","n","t","a","m","o","n","i","c","a",".","g","o","v","/","e","v","e","n","t","s","/","a">>

\* "https://www.santamonica.gov/events/b"
UrlEventB == <<"h","t","t","p","s",":","/","/","w","w","w",".","s","a","n","t","a","m","o","n","i","c","a",".","g","o","v","/","e","v","e","n","t","s","/","b">>

\* the listing page named event a twice, by two hrefs, around event b: two
\* links, and after a failure on the first, three requests in all
LinksWitness ==
    /\ pc = "done"
    /\ listing_hrefs = <<HrefRootedA, HrefRelativeB, HrefAbsoluteA>>
    /\ event_links = <<UrlEventA, UrlEventB>>
    /\ FailedIndexes = {1}
    /\ requests_log = <<ListingUrl, UrlEventA, UrlEventB>>

====
